---- MODULE Spec2Model ----
(***************************************************************************)
(* State-machine model of layman's API layer (src/layman/api.py, class     *)
(* LaymanAPI) on top of the overlay-list handler (src/layman/dbbase.py,    *)
(* class DbBase).  The program is Python 2.                                *)
(*                                                                         *)
(* A catalog (DbBase.overlays) is a function from overlay names to         *)
(* overlays; an overlay is a record [name, sources] where sources is the   *)
(* ordered list of source uris.  Every public method of LaymanAPI is one   *)
(* action; the record `last` keeps the arguments, the environment's        *)
(* answers, the state before the call and the outcome of the latest call,  *)
(* so that the contracts of the methods are state predicates.              *)
(***************************************************************************)
EXTENDS Integers, Sequences, FiniteSets, TLC

VARIABLES
    disk_installed,   \* the overlay list file DB(config) is read from
    disk_available,   \* the cached remote list RemoteDB(config) is read from
    installed_db,     \* self._installed_db.overlays
    installed_ids,    \* self._installed_ids
    available_db,     \* self._available_db.overlays
    available_ids,    \* self._available_ids
    error_messages,   \* self._error_messages
    sync_results,     \* self.sync_results
    last              \* the latest call: arguments, answers, state before, outcome

vars == <<disk_installed, disk_available, installed_db, installed_ids,
          available_db, available_ids, error_messages, sync_results, last>>

(***************************************************************************)
(* Bounds and input universes                                              *)
(***************************************************************************)
MaxBatch == 2      \* longest list of ids given to a batch operation
MaxErrors == 2     \* longest error queue explored
MaxSources == 2    \* most sources of one overlay

Ids == {"a", "b"}
Uris == {"A", "B", "C"}

\* The order of str on the ids (sorted() in get_installed / get_available).
IdRank == ("a" :> 1) @@ ("b" :> 2)

SeqsUpTo(S, n) == UNION {[1..k -> S] : k \in 0..n}

Batches == SeqsUpTo(Ids, MaxBatch)
Overlay(n, srcs) == [name |-> n, sources |-> srcs]

\* All catalogs whose overlays have between 1 and k sources with uris in U.
Catalogs(U, k) ==
    {[n \in DOMAIN c |-> Overlay(n, c[n])] :
        c \in UNION {[D -> (SeqsUpTo(U, k) \ {<<>>})] : D \in SUBSET Ids}}

(***************************************************************************)
(* Exceptions.  A call either returns or lets an exception leave it;       *)
(* `raised` names the exception class, "none" when the call returned.      *)
(***************************************************************************)
NoException == "none"

\* The class UnknownOverlayException, as an except clause names it.
UnknownOverlayException == "UnknownOverlayException"

\* `raise UnknownOverlayException(x)`: __init__ evaluates the name `message`,
\* which is bound neither in the method nor in the module, so constructing the
\* exception raises NameError and that is the exception the statement lets out.
raise_UnknownOverlayException == "NameError"

\* DbBase.select: the overlay, or the exception raised.
select(overlays, overlay) ==
    IF overlay \notin DOMAIN overlays
    THEN [raised |-> raise_UnknownOverlayException,
          value |-> Overlay(overlay, <<>>)]
    ELSE [raised |-> NoException, value |-> overlays[overlay]]

\* DbBase.list_ids / sorted(db.overlays): the names in ascending order.
sorted(overlays) ==
    CHOOSE s \in [1..Cardinality(DOMAIN overlays) -> DOMAIN overlays] :
        \A i, j \in DOMAIN s : i < j => IdRank[s[i]] < IdRank[s[j]]

Range(s) == {s[i] : i \in DOMAIN s}

\* LaymanAPI.is_repo and is_installed on the id lists of a loop state.
is_repo(ids, id) == id \in Range(ids)
is_installed(ids, id) == id \in Range(ids)

\* LaymanAPI._error: the pair ("Error: num,", message) appended to the queue;
\* the message is kept as the kind of the text and the id it is formatted with.
ErrorEntry(num, kind, id) == [num |-> num, kind |-> kind, id |-> id]
error(queue, num, kind, id) == Append(queue, ErrorEntry(num, kind, id))

ERROR_INTERNAL_ERROR == -2

\* LaymanAPI._check_repo_type: a str becomes a one-element list, a list is
\* returned as it is; for any other type the static method evaluates `self`,
\* which is not bound there, and NameError leaves the caller.
check_repo_type(argtype, repos) ==
    IF argtype = "str" THEN [raised |-> NoException, repos |-> <<repos>>]
    ELSE IF argtype # "list" THEN [raised |-> "NameError", repos |-> <<>>]
    ELSE [raised |-> NoException, repos |-> repos]

(***************************************************************************)
(* The two databases.  layman.db (classes DB and RemoteDB) is not part of  *)
(* the sources at hand; it is modelled from the specification: the         *)
(* constructor loads the catalog from its backing store, add and delete    *)
(* persist the change or fail with an exception and leave the store as it  *)
(* was, sync hands the overlay to the sync adapter, which returns or fails.*)
(***************************************************************************)
\* DB(config) / RemoteDB(config): the catalog read from the backing store.
DB(disk) == disk

\* DB.add(overlay, quiet=True): ok is the answer of the persistence.
DB_add(disk, overlay, ok) ==
    IF ok
    THEN [raised |-> NoException,
          disk |-> [n \in DOMAIN disk \cup {overlay.name} |->
                        IF n = overlay.name THEN overlay ELSE disk[n]]]
    ELSE [raised |-> "Exception", disk |-> disk]

\* DB.delete(overlay): ok is the answer of the persistence.
DB_delete(disk, overlay, ok) ==
    IF ok
    THEN [raised |-> NoException,
          disk |-> [n \in DOMAIN disk \ {overlay.name} |-> disk[n]]]
    ELSE [raised |-> "Exception", disk |-> disk]

\* RemoteDB.cache(): ok is the answer of the download; on success the cached
\* remote list is replaced by the list fetched, the loaded catalog is not touched.
RemoteDB_cache(disk, fetched, ok) ==
    IF ok
    THEN [raised |-> NoException, disk |-> fetched]
    ELSE [raised |-> "Exception", disk |-> disk]

\* DB.sync(id, quiet): ok is the answer of the sync adapter.
DB_sync(id, ok) == IF ok THEN NoException ELSE "Exception"

(***************************************************************************)
(* Loop state of add_repos and delete_repos: the installed database and    *)
(* its backing store, the id list, the error queue and the local `results`.*)
(***************************************************************************)
\* A variant of get_installed that rebuilds the database and keeps the id list.
get_installed_stale_ids(st, reload) ==
    IF reload
    THEN [st EXCEPT !.db = DB(st.disk)]
    ELSE st

\* LaymanAPI.get_installed(reload): a DbBase instance is always true, so the
\* database is rebuilt exactly when reload is set.
get_installed(st, reload) ==
    IF reload
    THEN [st EXCEPT !.db = DB(st.disk), !.ids = sorted(DB(st.disk))]
    ELSE st

\* Variants of the loop body of add_repos with one slip each: the reload after
\* the attempt left out; the is_installed test left out; the unknown id
\* recorded as a success; the outcomes of the attempt swapped.
add_repos_body_no_reload(st, avail_db, avail_ids, id, ok) ==
    IF is_installed(st.ids, id)
    THEN [st |-> [st EXCEPT !.results = Append(@, TRUE)], brk |-> TRUE]
    ELSE IF ~is_repo(avail_ids, id)
    THEN [st |-> [st EXCEPT !.errors = error(@, 1, "unknown_repo", id),
                            !.results = Append(@, FALSE)],
          brk |-> TRUE]
    ELSE LET add == DB_add(st.disk, select(avail_db, id).value, ok)
         IN  [st |-> IF add.raised = NoException
                     THEN [st EXCEPT !.disk = add.disk,
                                     !.results = Append(@, TRUE)]
                     ELSE [st EXCEPT !.errors = error(@, ERROR_INTERNAL_ERROR,
                                                      "add_failed", id),
                                     !.results = Append(@, FALSE)],
              brk |-> FALSE]

add_repos_body_no_installed_test(st, avail_db, avail_ids, id, ok) ==
    IF ~is_repo(avail_ids, id)
    THEN [st |-> [st EXCEPT !.errors = error(@, 1, "unknown_repo", id),
                            !.results = Append(@, FALSE)],
          brk |-> TRUE]
    ELSE LET add == DB_add(st.disk, select(avail_db, id).value, ok)
             done == IF add.raised = NoException
                     THEN [st EXCEPT !.disk = add.disk,
                                     !.results = Append(@, TRUE)]
                     ELSE [st EXCEPT !.errors = error(@, ERROR_INTERNAL_ERROR,
                                                      "add_failed", id),
                                     !.results = Append(@, FALSE)]
         IN  [st |-> get_installed(done, TRUE), brk |-> FALSE]

add_repos_body_unknown_succeeds(st, avail_db, avail_ids, id, ok) ==
    IF is_installed(st.ids, id) \/ ~is_repo(avail_ids, id)
    THEN [st |-> [st EXCEPT !.results = Append(@, TRUE)], brk |-> TRUE]
    ELSE LET add == DB_add(st.disk, select(avail_db, id).value, ok)
             done == IF add.raised = NoException
                     THEN [st EXCEPT !.disk = add.disk,
                                     !.results = Append(@, TRUE)]
                     ELSE [st EXCEPT !.errors = error(@, ERROR_INTERNAL_ERROR,
                                                      "add_failed", id),
                                     !.results = Append(@, FALSE)]
         IN  [st |-> get_installed(done, TRUE), brk |-> FALSE]

add_repos_body_outcomes_swapped(st, avail_db, avail_ids, id, ok) ==
    IF is_installed(st.ids, id)
    THEN [st |-> [st EXCEPT !.results = Append(@, TRUE)], brk |-> TRUE]
    ELSE IF ~is_repo(avail_ids, id)
    THEN [st |-> [st EXCEPT !.errors = error(@, 1, "unknown_repo", id),
                            !.results = Append(@, FALSE)],
          brk |-> TRUE]
    ELSE LET add == DB_add(st.disk, select(avail_db, id).value, ok)
             done == IF add.raised = NoException
                     THEN [st EXCEPT !.disk = add.disk,
                                     !.errors = error(@, ERROR_INTERNAL_ERROR,
                                                      "add_failed", id),
                                     !.results = Append(@, FALSE)]
                     ELSE [st EXCEPT !.results = Append(@, TRUE)]
         IN  [st |-> get_installed(done, TRUE), brk |-> FALSE]

\* One iteration of the loop of add_repos at an id; ok is the persistence's
\* answer should DB.add be called.  brk tells that the iteration ended in break.
add_repos_body(st, avail_db, avail_ids, id, ok) ==
    IF is_installed(st.ids, id)
    THEN [st |-> [st EXCEPT !.results = Append(@, TRUE)], brk |-> TRUE]
    ELSE IF ~is_repo(avail_ids, id)
    THEN [st |-> [st EXCEPT !.errors = error(@, 1, "unknown_repo", id),
                            !.results = Append(@, FALSE)],
          brk |-> TRUE]
    ELSE LET sel == select(avail_db, id)
             add == IF sel.raised = NoException
                    THEN DB_add(st.disk, sel.value, ok)
                    ELSE [raised |-> sel.raised, disk |-> st.disk]
             done == IF add.raised = NoException
                     THEN [st EXCEPT !.disk = add.disk,
                                     !.results = Append(@, TRUE)]
                     ELSE [st EXCEPT !.errors = error(@, ERROR_INTERNAL_ERROR,
                                                      "add_failed", id),
                                     !.results = Append(@, FALSE)]
         IN  [st |-> get_installed(done, TRUE), brk |-> FALSE]

RECURSIVE add_repos_loop(_, _, _, _, _, _)
add_repos_loop(st, avail_db, avail_ids, repos, persist, i) ==
    IF i > Len(repos) THEN st
    ELSE LET r == add_repos_body(st, avail_db, avail_ids, repos[i], persist[i])
         IN  IF r.brk THEN r.st
             ELSE add_repos_loop(r.st, avail_db, avail_ids, repos, persist, i + 1)

\* Variants of the loop body of delete_repos with one slip each: the
\* is_installed test left out; the reload after the attempt left out.
delete_repos_body_no_installed_test(st, avail_ids, id, ok) ==
    IF ~is_repo(avail_ids, id)
    THEN [st |-> [st EXCEPT !.errors = error(@, 1, "unknown_repo", id),
                            !.results = Append(@, FALSE)],
          brk |-> TRUE]
    ELSE LET sel == select(st.db, id)
             del == IF sel.raised = NoException
                    THEN DB_delete(st.disk, sel.value, ok)
                    ELSE [raised |-> sel.raised, disk |-> st.disk]
             done == IF del.raised = NoException
                     THEN [st EXCEPT !.disk = del.disk,
                                     !.results = Append(@, TRUE)]
                     ELSE [st EXCEPT !.errors = error(@, ERROR_INTERNAL_ERROR,
                                                      "delete_failed", id),
                                     !.results = Append(@, FALSE)]
         IN  [st |-> get_installed(done, TRUE), brk |-> FALSE]

delete_repos_body_no_reload(st, avail_ids, id, ok) ==
    IF ~is_installed(st.ids, id)
    THEN [st |-> [st EXCEPT !.results = Append(@, TRUE)], brk |-> TRUE]
    ELSE IF ~is_repo(avail_ids, id)
    THEN [st |-> [st EXCEPT !.errors = error(@, 1, "unknown_repo", id),
                            !.results = Append(@, FALSE)],
          brk |-> TRUE]
    ELSE LET del == DB_delete(st.disk, select(st.db, id).value, ok)
         IN  [st |-> IF del.raised = NoException
                     THEN [st EXCEPT !.disk = del.disk,
                                     !.results = Append(@, TRUE)]
                     ELSE [st EXCEPT !.errors = error(@, ERROR_INTERNAL_ERROR,
                                                      "delete_failed", id),
                                     !.results = Append(@, FALSE)],
              brk |-> FALSE]

\* A variant of the loop body of delete_repos without the is_repo test.
delete_repos_body_no_repo_test(st, avail_ids, id, ok) ==
    IF ~is_installed(st.ids, id)
    THEN [st |-> [st EXCEPT !.results = Append(@, TRUE)], brk |-> TRUE]
    ELSE LET del == DB_delete(st.disk, select(st.db, id).value, ok)
             done == IF del.raised = NoException
                     THEN [st EXCEPT !.disk = del.disk,
                                     !.results = Append(@, TRUE)]
                     ELSE [st EXCEPT !.errors = error(@, ERROR_INTERNAL_ERROR,
                                                      "delete_failed", id),
                                     !.results = Append(@, FALSE)]
         IN  [st |-> get_installed(done, TRUE), brk |-> FALSE]

\* One iteration of the loop of delete_repos.
delete_repos_body(st, avail_ids, id, ok) ==
    IF ~is_installed(st.ids, id)
    THEN [st |-> [st EXCEPT !.results = Append(@, TRUE)], brk |-> TRUE]
    ELSE IF ~is_repo(avail_ids, id)
    THEN [st |-> [st EXCEPT !.errors = error(@, 1, "unknown_repo", id),
                            !.results = Append(@, FALSE)],
          brk |-> TRUE]
    ELSE LET sel == select(st.db, id)
             del == IF sel.raised = NoException
                    THEN DB_delete(st.disk, sel.value, ok)
                    ELSE [raised |-> sel.raised, disk |-> st.disk]
             done == IF del.raised = NoException
                     THEN [st EXCEPT !.disk = del.disk,
                                     !.results = Append(@, TRUE)]
                     ELSE [st EXCEPT !.errors = error(@, ERROR_INTERNAL_ERROR,
                                                      "delete_failed", id),
                                     !.results = Append(@, FALSE)]
         IN  [st |-> get_installed(done, TRUE), brk |-> FALSE]

RECURSIVE delete_repos_loop(_, _, _, _, _)
delete_repos_loop(st, avail_ids, repos, persist, i) ==
    IF i > Len(repos) THEN st
    ELSE LET r == delete_repos_body(st, avail_ids, repos[i], persist[i])
         IN  IF r.brk THEN r.st
             ELSE delete_repos_loop(r.st, avail_ids, repos, persist, i + 1)

\* The return statement of add_repos and delete_repos.
batch_result(results) == ~(FALSE \in Range(results))

(***************************************************************************)
(* The record of the latest call                                           *)
(***************************************************************************)
NoCall ==
    [op |-> "init", argtype |-> "list", repos |-> <<>>, answers |-> <<>>,
     output_results |-> TRUE, pre_db |-> <<>>, pre_errors |-> <<>>,
     results |-> <<>>, raised |-> NoException,
     returned |-> "None", ret |-> TRUE, messages |-> <<>>,
     success |-> <<>>, warnings |-> <<>>, fatals |-> <<>>]

Call(op, argtype) ==
    [NoCall EXCEPT !.op = op, !.argtype = argtype, !.pre_db = installed_db,
                   !.pre_errors = error_messages]

LoopState ==
    [disk |-> disk_installed, db |-> installed_db, ids |-> installed_ids,
     errors |-> error_messages, results |-> <<>>]

(***************************************************************************)
(* Actions: the public methods of LaymanAPI                                *)
(***************************************************************************)
\* add_repos(repos); persist[i] is the persistence's answer at the i-th id.
\* An answer that is never asked for is no input of the call: the positions
\* at which DB.add is not reached carry TRUE (those after the last outcome,
\* and the position of the last outcome when the answer makes no difference).
add_repos(argtype, arg, persist) ==
    LET chk == check_repo_type(argtype, arg)
    IN  IF chk.raised # NoException
        THEN /\ last' = [Call("add_repos", argtype) EXCEPT !.raised = chk.raised]
             /\ UNCHANGED <<disk_installed, disk_available, installed_db,
                            installed_ids, available_db, available_ids,
                            error_messages, sync_results>>
        ELSE \E fin \in {add_repos_loop(LoopState, available_db, available_ids,
                                         chk.repos, persist, 1)} :
                 /\ Len(fin.errors) <= MaxErrors
                 /\ \A i \in DOMAIN persist :
                       ~persist[i] =>
                          /\ i <= Len(fin.results)
                          /\ i = Len(fin.results) =>
                                fin # add_repos_loop(LoopState, available_db,
                                          available_ids, chk.repos,
                                          [persist EXCEPT ![i] = TRUE], 1)
                 /\ disk_installed' = fin.disk
                 /\ installed_db' = fin.db
                 /\ installed_ids' = fin.ids
                 /\ error_messages' = fin.errors
                 /\ last' = [Call("add_repos", argtype) EXCEPT
                                !.repos = chk.repos, !.answers = persist,
                                !.results = fin.results, !.returned = "bool",
                                !.ret = batch_result(fin.results)]
                 /\ UNCHANGED <<disk_available, available_db, available_ids,
                                sync_results>>

\* delete_repos(repos); persist[i] is the persistence's answer at the i-th id,
\* TRUE at the positions at which DB.delete is not reached.
delete_repos(argtype, arg, persist) ==
    LET chk == check_repo_type(argtype, arg)
    IN  IF chk.raised # NoException
        THEN /\ last' = [Call("delete_repos", argtype) EXCEPT !.raised = chk.raised]
             /\ UNCHANGED <<disk_installed, disk_available, installed_db,
                            installed_ids, available_db, available_ids,
                            error_messages, sync_results>>
        ELSE \E fin \in {delete_repos_loop(LoopState, available_ids,
                                            chk.repos, persist, 1)} :
                 /\ Len(fin.errors) <= MaxErrors
                 /\ \A i \in DOMAIN persist :
                       ~persist[i] =>
                          /\ i <= Len(fin.results)
                          /\ i = Len(fin.results) =>
                                fin # delete_repos_loop(LoopState, available_ids,
                                          chk.repos,
                                          [persist EXCEPT ![i] = TRUE], 1)
                 /\ disk_installed' = fin.disk
                 /\ installed_db' = fin.db
                 /\ installed_ids' = fin.ids
                 /\ error_messages' = fin.errors
                 /\ last' = [Call("delete_repos", argtype) EXCEPT
                                !.repos = chk.repos, !.answers = persist,
                                !.results = fin.results, !.returned = "bool",
                                !.ret = batch_result(fin.results)]
                 /\ UNCHANGED <<disk_available, available_db, available_ids,
                                sync_results>>

(***************************************************************************)
(* sync                                                                    *)
(***************************************************************************)
\* The two shapes of an entry of the local `warnings` of sync.  The entry for
\* an overlay missing from the remote lists is the pair (id, message); the
\* entry for a changed source is built with a comma where the message should
\* be formatted, and is the triple (id, format, values).
MissingWarning(id) ==
    [id |-> id, kind |-> "not_found", arity |-> 2, current_src |-> "",
     candidates |-> {}, plural |-> ""]
SourceWarning(id, current_src, available_srcs) ==
    [id |-> id, kind |-> "source_changed", arity |-> 3,
     current_src |-> current_src, candidates |-> available_srcs,
     plural |-> IF Cardinality(available_srcs) = 1 THEN "" ELSE "s"]

\* One iteration of the loop of sync; ok is the sync adapter's answer should
\* DB.sync be called.  st.raised is the exception that leaves the loop.
sync_body(st, inst_db, avail_db, id, ok) ==
    LET odb == select(inst_db, id)
    IN  IF odb.raised = UnknownOverlayException
        THEN [st EXCEPT !.errors = error(@, 1, "sync_select", id)]
        ELSE IF odb.raised # NoException
        THEN [st EXCEPT !.raised = odb.raised]
        ELSE
        LET ordb == select(avail_db, id)
            current_src == odb.value.sources[1]
            available_srcs == Range(ordb.value.sources)
            warned ==
                IF ordb.raised = UnknownOverlayException
                THEN [st EXCEPT !.warnings = Append(@, MissingWarning(id))]
                ELSE IF ordb.raised # NoException
                THEN [st EXCEPT !.raised = ordb.raised]
                ELSE IF current_src \notin available_srcs
                THEN [st EXCEPT !.warnings =
                         Append(@, SourceWarning(id, current_src, available_srcs))]
                ELSE st
        IN  IF warned.raised # NoException THEN warned
            ELSE IF DB_sync(id, ok) = NoException
            THEN [warned EXCEPT !.success = Append(@, id)]
            ELSE [warned EXCEPT !.fatals = Append(@, id)]

RECURSIVE sync_loop(_, _, _, _, _, _)
sync_loop(st, inst_db, avail_db, repos, adapter, i) ==
    IF i > Len(repos) \/ st.raised # NoException THEN st
    ELSE sync_loop(sync_body(st, inst_db, avail_db, repos[i], adapter[i]),
                   inst_db, avail_db, repos, adapter, i + 1)

\* The end of sync: what is raised, what is returned and whether
\* self.sync_results is assigned.  An exception of the loop leaves sync.  With output_results set the
\* warnings are unpacked as pairs, which fails on a triple; a non-empty fatals
\* list then returns False before the assignment of sync_results.
sync_finish(st, output_results) ==
    IF st.raised # NoException
    THEN [raised |-> st.raised, ret |-> FALSE, store |-> FALSE]
    ELSE IF output_results /\ \E i \in DOMAIN st.warnings : st.warnings[i].arity # 2
    THEN [raised |-> "ValueError", ret |-> FALSE, store |-> FALSE]
    ELSE IF output_results /\ st.fatals # <<>>
    THEN [raised |-> NoException, ret |-> FALSE, store |-> FALSE]
    ELSE [raised |-> NoException, ret |-> TRUE, store |-> TRUE]

\* The locals of sync before the loop, and the error queue.
SyncLoopState ==
    [errors |-> error_messages, success |-> <<>>, warnings |-> <<>>,
     fatals |-> <<>>, raised |-> NoException]

\* sync(repos, output_results); adapter[i] is the sync adapter's answer at the
\* i-th id, TRUE at the positions at which DB.sync is not reached.
sync(argtype, arg, adapter, output_results) ==
    LET chk == check_repo_type(argtype, arg)
        call == [Call("sync", argtype) EXCEPT !.output_results = output_results]
    IN  IF chk.raised # NoException
        THEN /\ last' = [call EXCEPT !.raised = chk.raised]
             /\ UNCHANGED <<disk_installed, disk_available, installed_db,
                            installed_ids, available_db, available_ids,
                            error_messages, sync_results>>
        ELSE \E st \in {sync_loop(SyncLoopState, installed_db, available_db,
                                   chk.repos, adapter, 1)} :
             \E fin \in {sync_finish(st, output_results)} :
                 /\ Len(st.errors) <= MaxErrors
                 /\ \A i \in DOMAIN adapter :
                       ~adapter[i] =>
                          st # sync_loop(SyncLoopState, installed_db, available_db,
                                         chk.repos, [adapter EXCEPT ![i] = TRUE], 1)
                 /\ error_messages' = st.errors
                 /\ sync_results' = IF fin.store
                                    THEN <<st.success, st.warnings, st.fatals>>
                                    ELSE sync_results
                 /\ last' = [call EXCEPT
                                !.repos = chk.repos, !.answers = adapter,
                                !.raised = fin.raised,
                                !.returned = IF fin.raised = NoException
                                             THEN "bool" ELSE "None",
                                !.ret = fin.ret, !.success = st.success,
                                !.warnings = st.warnings, !.fatals = st.fatals]
                 /\ UNCHANGED <<disk_installed, disk_available, installed_db,
                                installed_ids, available_db, available_ids>>

\* A variant of get_errors that returns the queue without resetting it.
get_errors_keeps_queue ==
    /\ IF error_messages # <<>>
       THEN last' = [Call("get_errors", "list") EXCEPT
                        !.returned = "list", !.messages = error_messages]
       ELSE last' = Call("get_errors", "list")
    /\ UNCHANGED <<disk_installed, disk_available, installed_db, installed_ids,
                   available_db, available_ids, error_messages, sync_results>>

\* get_errors(): the queue is copied and reset when it is not empty; with an
\* empty queue the method falls off its end and returns None.
get_errors ==
    /\ IF error_messages # <<>>
       THEN /\ last' = [Call("get_errors", "list") EXCEPT
                           !.returned = "list", !.messages = error_messages]
            /\ error_messages' = <<>>
       ELSE /\ last' = Call("get_errors", "list")
            /\ UNCHANGED error_messages
    /\ UNCHANGED <<disk_installed, disk_available, installed_db, installed_ids,
                   available_db, available_ids, sync_results>>

\* reload(): get_available(reload=True), then get_installed(reload=True).
reload ==
    /\ available_db' = DB(disk_available)
    /\ available_ids' = sorted(DB(disk_available))
    /\ installed_db' = DB(disk_installed)
    /\ installed_ids' = sorted(DB(disk_installed))
    /\ last' = Call("reload", "list")
    /\ UNCHANGED <<disk_installed, disk_available, error_messages, sync_results>>

\* fetch_remote_list(): the cache of the remote list is refreshed; a failure
\* is queued as error -1 and the method returns False.
fetch_remote_list(fetched, ok) ==
    \E cache \in {RemoteDB_cache(disk_available, fetched, ok)} :
        /\ Len(error_messages) < MaxErrors \/ cache.raised = NoException
        /\ disk_available' = cache.disk
        /\ error_messages' = IF cache.raised = NoException THEN error_messages
                              ELSE error(error_messages, -1, "fetch_failed", "")
        /\ last' = [Call("fetch_remote_list", "list") EXCEPT
                       !.answers = <<ok>>, !.returned = "bool",
                       !.ret = (cache.raised = NoException)]
        /\ UNCHANGED <<disk_installed, installed_db, installed_ids, available_db,
                       available_ids, sync_results>>

\* get_available(reload): a DbBase instance is always true, so the remote list
\* is loaded again exactly when reload is set (force); the id list is returned.
get_available_call(force) ==
    /\ available_db' = IF force THEN DB(disk_available) ELSE available_db
    /\ available_ids' = IF force THEN sorted(DB(disk_available)) ELSE available_ids
    /\ last' = [Call(IF force THEN "get_available_reload" ELSE "get_available",
                     "list") EXCEPT !.returned = "list"]
    /\ UNCHANGED <<disk_installed, disk_available, installed_db, installed_ids,
                   error_messages, sync_results>>

\* get_installed(reload) as a call of its own.
get_installed_call(force) ==
    \E st \in {get_installed(LoopState, force)} :
        /\ installed_db' = st.db
        /\ installed_ids' = st.ids
        /\ last' = [Call(IF force THEN "get_installed_reload" ELSE "get_installed",
                         "list") EXCEPT !.returned = "list"]
        /\ UNCHANGED <<disk_installed, disk_available, available_db,
                       available_ids, error_messages, sync_results>>

Answers(n) == [1..n -> BOOLEAN]

\* LaymanAPI.__init__: empty queue, empty sync_results, then reload().
InitFrom(inst, avail) ==
    /\ disk_installed = inst
    /\ disk_available = avail
    /\ installed_db = DB(inst)
    /\ installed_ids = sorted(DB(inst))
    /\ available_db = DB(avail)
    /\ available_ids = sorted(DB(avail))
    /\ error_messages = <<>>
    /\ sync_results = <<>>
    /\ last = NoCall

\* The installed overlays were installed from the uri "A"; the remote lists
\* name one source per overlay, "A" or "B".
Init ==
    \E inst \in Catalogs({"A"}, 1), avail \in Catalogs({"A", "B"}, 1) :
        InitFrom(inst, avail)

Next ==
    \/ \E id \in Ids : \E persist \in Answers(1) :
           add_repos("str", id, persist)
    \/ \E repos \in Batches : \E persist \in Answers(Len(repos)) :
           add_repos("list", repos, persist)
    \/ add_repos("int", 0, <<>>)
    \/ \E id \in Ids : \E persist \in Answers(1) :
           delete_repos("str", id, persist)
    \/ \E repos \in Batches : \E persist \in Answers(Len(repos)) :
           delete_repos("list", repos, persist)
    \/ delete_repos("int", 0, <<>>)
    \/ get_errors
    \/ reload

Spec == Init /\ [][Next]_vars

\* The remote list is fetched again and the catalogs are loaded again, between
\* calls of add_repos and delete_repos on one id; a failed download leaves the
\* cached list.
NextRemote ==
    \/ \E fetched \in Catalogs({"A", "B"}, 1) : \E ok \in BOOLEAN :
           /\ (~ok => fetched = disk_available)
           /\ fetch_remote_list(fetched, ok)
    \/ \E force \in BOOLEAN : get_available_call(force)
    \/ \E force \in BOOLEAN : get_installed_call(force)
    \/ \E id \in Ids : \E persist \in Answers(1) :
           add_repos("str", id, persist)
    \/ \E id \in Ids : \E persist \in Answers(1) :
           delete_repos("str", id, persist)
    \/ get_errors
    \/ reload

SpecRemote == Init /\ [][NextRemote]_vars

\* The installed overlays sync from the uri "A"; the remote lists give each
\* overlay up to MaxSources sources out of Uris.
InitSync ==
    \E inst \in Catalogs({"A"}, 1), avail \in Catalogs(Uris, MaxSources) :
        InitFrom(inst, avail)

NextSync ==
    \/ \E id \in Ids : \E adapter \in Answers(1) : \E output_results \in BOOLEAN :
           sync("str", id, adapter, output_results)
    \/ \E repos \in Batches : \E adapter \in Answers(Len(repos)) :
       \E output_results \in BOOLEAN :
           sync("list", repos, adapter, output_results)
    \/ \E output_results \in BOOLEAN : sync("int", 0, <<>>, output_results)

SpecSync == InitSync /\ [][NextSync]_vars

\* Installed overlays with several sources: the overlay "a" is installed with
\* up to MaxSources sources out of "A" and "B" and the remote lists give it up
\* to MaxSources sources out of Uris; the overlay "b" has one source.
InitDrift ==
    \E inst \in {c \in Catalogs({"A", "B"}, MaxSources) :
                    "b" \in DOMAIN c => c["b"].sources = <<"A">>},
       avail \in {c \in Catalogs(Uris, MaxSources) :
                    "b" \in DOMAIN c => c["b"].sources \in {<<"A">>, <<"B">>}} :
        InitFrom(inst, avail)

SpecDrift == InitDrift /\ [][NextSync]_vars

(***************************************************************************)
(* get_all_info and get_info_str                                           *)
(***************************************************************************)
\* The values of the result map: the placeholder ('', False, False), the
\* dictionary get_all_info builds from the overlay's fields, and the tuple
\* get_info_str builds around the overlay's string form.
Placeholder == [kind |-> "placeholder"]
all_info(overlay) ==
    [kind |-> "dict", name |-> overlay.name, src_uris |-> overlay.sources]
info_str(overlay) == [kind |-> "tuple", info |-> overlay]

\* result[id] = value
SetItem(result, id, value) ==
    [n \in DOMAIN result \cup {id} |-> IF n = id THEN value ELSE result[n]]

\* One iteration of the loop of get_all_info (op = "get_all_info") or of
\* get_info_str: the test of is_repo is followed, whatever its outcome, by the
\* select on the available catalog.
get_info_body(st, avail_db, avail_ids, id, op) ==
    LET checked ==
            IF ~is_repo(avail_ids, id)
            THEN [st EXCEPT !.errors = error(@, 1, "unknown_repo", id),
                            !.result = SetItem(@, id, Placeholder)]
            ELSE st
        overlay == select(avail_db, id)
    IN  IF overlay.raised = UnknownOverlayException
        THEN [checked EXCEPT !.errors = error(@, 2, "select_error", id),
                             !.result = SetItem(@, id, Placeholder)]
        ELSE IF overlay.raised # NoException
        THEN [checked EXCEPT !.raised = overlay.raised]
        ELSE [checked EXCEPT !.result =
                 SetItem(@, id, IF op = "get_all_info"
                                THEN all_info(overlay.value)
                                ELSE info_str(overlay.value))]

RECURSIVE get_info_loop(_, _, _, _, _, _)
get_info_loop(st, avail_db, avail_ids, repos, op, i) ==
    IF i > Len(repos) \/ st.raised # NoException THEN st
    ELSE get_info_loop(get_info_body(st, avail_db, avail_ids, repos[i], op),
                       avail_db, avail_ids, repos, op, i + 1)

\* The record of a call of get_all_info or get_info_str.
InfoCall(op, argtype) ==
    [op |-> op, argtype |-> argtype, repos |-> <<>>,
     pre_db |-> installed_db, pre_errors |-> error_messages,
     raised |-> NoException, returned |-> "None", info |-> <<>>]

get_info(op, argtype, arg) ==
    LET chk == check_repo_type(argtype, arg)
    IN  IF chk.raised # NoException
        THEN /\ last' = [InfoCall(op, argtype) EXCEPT !.raised = chk.raised]
             /\ UNCHANGED <<disk_installed, disk_available, installed_db,
                            installed_ids, available_db, available_ids,
                            error_messages, sync_results>>
        ELSE \E fin \in {get_info_loop([errors |-> error_messages,
                                        result |-> <<>>, raised |-> NoException],
                                       available_db, available_ids,
                                       chk.repos, op, 1)} :
                 /\ Len(fin.errors) <= MaxErrors
                 /\ error_messages' = fin.errors
                 /\ last' = [InfoCall(op, argtype) EXCEPT
                                !.repos = chk.repos, !.raised = fin.raised,
                                !.returned = IF fin.raised = NoException
                                             THEN "dict" ELSE "None",
                                !.info = IF fin.raised = NoException
                                         THEN fin.result ELSE <<>>]
                 /\ UNCHANGED <<disk_installed, disk_available, installed_db,
                                installed_ids, available_db, available_ids,
                                sync_results>>

get_all_info(argtype, arg) == get_info("get_all_info", argtype, arg)
get_info_str(argtype, arg) == get_info("get_info_str", argtype, arg)

NextInfo ==
    \/ \E id \in Ids : get_all_info("str", id)
    \/ \E repos \in Batches : get_all_info("list", repos)
    \/ get_all_info("int", 0)
    \/ \E id \in Ids : get_info_str("str", id)
    \/ \E repos \in Batches : get_info_str("list", repos)
    \/ get_info_str("int", 0)
    \/ get_errors

SpecInfo == Init /\ [][NextInfo]_vars

(***************************************************************************)
(* DbBase: a catalog object (installed_db holds its `overlays`) and the     *)
(* file at its path (disk_installed).  The class Overlay is not part of    *)
(* this source: an overlay is built from an element or a dictionary by     *)
(* taking its name and its sources, and to_xml is the inverse.             *)
(***************************************************************************)
MaxDocs == 2       \* most documents added to one catalog object

\* The children of the root of a document and the dictionaries of from_dict;
\* a document or a list has up to as many entries as there are names, and
\* may declare a name twice.
Tags == {"overlay", "repo"}
Element(tag, n, srcs) == [tag |-> tag, name |-> n, sources |-> srcs]
Elements == {Element(t, n, <<u>>) : t \in Tags, n \in Ids, u \in {"A", "B"}}
Documents == SeqsUpTo(Elements, Cardinality(Ids))
DictLists ==
    SeqsUpTo({Overlay(n, <<u>>) : n \in Ids, u \in {"A", "B"}}, Cardinality(Ids))

\* Overlay(config, xml=element), Overlay(config, ovl_dict=dictionary), to_xml().
Overlay_from_xml(element) == Overlay(element.name, element.sources)
Overlay_from_dict(ovl_dict) == Overlay(ovl_dict.name, ovl_dict.sources)
to_xml(overlay, tag) == Element(tag, overlay.name, overlay.sources)

\* document.findall(tag): the children with that tag, in document order.
findall(document, tag) == SelectSeq(document, LAMBDA e : e.tag = tag)

\* A variant of read that keeps the entry a name already has.
RECURSIVE read_keeps_existing(_, _)
read_keeps_existing(overlays, document) ==
    IF document = <<>> THEN overlays
    ELSE LET ovl == Overlay_from_xml(Head(document))
         IN  read_keeps_existing(
                 IF ovl.name \in DOMAIN overlays THEN overlays
                 ELSE SetItem(overlays, ovl.name, ovl),
                 Tail(document))

\* A variant of read that takes the `overlay` children only.
RECURSIVE read_overlay_children_only(_, _)
read_overlay_children_only(overlays, document) ==
    LET found == findall(document, "overlay")
    IN  IF found = <<>> THEN overlays
        ELSE LET ovl == Overlay_from_xml(Head(found))
             IN  read_overlay_children_only(SetItem(overlays, ovl.name, ovl),
                                            Tail(found))

\* The loop of read: self.overlays[ovl.name] = ovl for each found element.
RECURSIVE read_loop(_, _)
read_loop(overlays, found) ==
    IF found = <<>> THEN overlays
    ELSE LET ovl == Overlay_from_xml(Head(found))
         IN  read_loop(SetItem(overlays, ovl.name, ovl), Tail(found))

\* DbBase.read(text, origin) on a well-formed document: the `overlay`
\* children, then the `repo` children.
read(overlays, document) ==
    read_loop(overlays, findall(document, "overlay") \o findall(document, "repo"))

\* DbBase._add_from_dict(overlays).
RECURSIVE add_from_dict(_, _)
add_from_dict(overlays, dicts) ==
    IF dicts = <<>> THEN overlays
    ELSE LET ovl == Overlay_from_dict(Head(dicts))
         IN  add_from_dict(SetItem(overlays, ovl.name, ovl), Tail(dicts))

\* The file at the path: absent, written whole, or cut short by a failed write.
NoFile == [state |-> "absent", document |-> <<>>]
WrittenFile(document) == [state |-> "written", document |-> document]
TruncatedFile == [state |-> "truncated", document |-> <<>>]

\* The exceptions ET.fromstring and the except clause of read let out on text
\* that is not well-formed: the parser's own error where it is not an
\* ExpatError, else the NotImplementedError of _broken_catalog_hint.
BrokenDocumentErrors == {"ParseError", "NotImplementedError"}

\* The record of a call on a catalog object.
DbCall(op) ==
    [op |-> op, pre_db |-> installed_db, docs |-> <<>>, name |-> "",
     raised |-> NoException, value |-> <<>>, after_write |-> FALSE,
     opened |-> TRUE]

\* add_new(xml=document): read.  docs is the list of what was added to the
\* object since it was constructed.
DbBase_add_new_xml(document) ==
    /\ Len(last.docs) < MaxDocs
    /\ installed_db' = read(installed_db, document)
    /\ last' = [DbCall("add_new_xml") EXCEPT !.docs = Append(last.docs, document)]
    /\ UNCHANGED <<disk_installed, disk_available, installed_ids, available_db,
                   available_ids, error_messages, sync_results>>

\* add_new(from_dict=dicts): _add_from_dict.
DbBase_add_new_from_dict(dicts) ==
    /\ Len(last.docs) < MaxDocs
    /\ installed_db' = add_from_dict(installed_db, dicts)
    /\ last' = [DbCall("add_new_from_dict") EXCEPT
                   !.docs = Append(last.docs, dicts)]
    /\ UNCHANGED <<disk_installed, disk_available, installed_ids, available_db,
                   available_ids, error_messages, sync_results>>

\* DbBase.write(path): the elements of self.overlays.values(), whose order is
\* that of the dictionary (order is a list of the names), written to the file;
\* a failure of open or of a write raises Exception and leaves the file as it
\* was or cut short.
DbBase_write(order, tag, ok, opened) ==
    LET tree == [i \in DOMAIN order |-> to_xml(installed_db[order[i]], tag)]
    IN  /\ disk_installed' = IF ok THEN WrittenFile(tree)
                             ELSE IF opened THEN TruncatedFile
                             ELSE disk_installed
        /\ last' = [DbCall("write") EXCEPT
                       !.raised = IF ok THEN NoException ELSE "Exception"]
        /\ UNCHANGED <<disk_available, installed_db, installed_ids, available_db,
                       available_ids, error_messages, sync_results>>

\* DbBase(config, paths=[path]): a new object; a path that does not exist is
\* skipped, else read_file reads the file and read adds its overlays.  When
\* the file cannot be opened or read (opened is FALSE) the handler of
\* read_file evaluates ignore_init_read_errors, a name that is bound in
\* __init__ only: NameError.  An exception leaves no new object.
DbBase_init(opened, parse_error) ==
    /\ IF disk_installed.state = "absent"
       THEN /\ installed_db' = <<>>
            /\ last' = [DbCall("DbBase") EXCEPT
                           !.after_write = (last.op = "write"
                                               /\ last.raised = NoException)]
       ELSE IF ~opened
       THEN /\ last' = [DbCall("DbBase") EXCEPT
                           !.raised = "NameError", !.opened = FALSE,
                           !.after_write = (last.op = "write"
                                               /\ last.raised = NoException)]
            /\ UNCHANGED installed_db
       ELSE IF disk_installed.state = "truncated"
       THEN /\ last' = [DbCall("DbBase") EXCEPT !.raised = parse_error]
            /\ UNCHANGED installed_db
       ELSE /\ installed_db' = read(<<>>, disk_installed.document)
            /\ last' = [DbCall("DbBase") EXCEPT
                           !.after_write = (last.op = "write"
                                               /\ last.raised = NoException)]
    /\ UNCHANGED <<disk_installed, disk_available, installed_ids, available_db,
                   available_ids, error_messages, sync_results>>

\* DbBase.select(name) on the object.
DbBase_select(name) ==
    /\ \E found \in {select(installed_db, name)} :
           last' = [DbCall("select") EXCEPT
                       !.name = name, !.raised = found.raised,
                       !.value = IF found.raised = NoException
                                 THEN found.value ELSE <<>>]
    /\ UNCHANGED <<disk_installed, disk_available, installed_db, installed_ids,
                   available_db, available_ids, error_messages, sync_results>>

\* DbBase.__eq__(self, other): the keys of both objects are visited in the
\* order of a set and both dictionaries are indexed at each: a key that one of
\* them lacks raises KeyError, a key at which they differ returns False, and
\* which comes first is the set's choice.  The possible outcomes.
DbBase_eq(self, other) ==
    LET keys == DOMAIN self \cup DOMAIN other
        missing == {k \in keys : k \notin DOMAIN self \/ k \notin DOMAIN other}
        differing == {k \in keys \ missing : self[k] # other[k]}
    IN  {[raised |-> "KeyError", value |-> FALSE] : k \in missing}
        \cup {[raised |-> NoException, value |-> FALSE] : k \in differing}
        \cup (IF missing \cup differing = {}
              THEN {[raised |-> NoException, value |-> TRUE]} ELSE {})

\* The lists in which the names of a dictionary may come.
Orders(overlays) ==
    {o \in [1..Cardinality(DOMAIN overlays) -> DOMAIN overlays] :
        \A i, j \in DOMAIN o : i # j => o[i] # o[j]}

\* A catalog object with the given overlays and no file at its path.
InitDb(overlays) ==
    /\ disk_installed = NoFile
    /\ disk_available = <<>>
    /\ installed_db = overlays
    /\ installed_ids = <<>>
    /\ available_db = <<>>
    /\ available_ids = <<>>
    /\ error_messages = <<>>
    /\ sync_results = <<>>
    /\ last = [DbCall("DbBase") EXCEPT !.pre_db = <<>>]

\* DbBase(config, paths=[]): an empty catalog, to which documents are added.
InitLoad == InitDb(<<>>)

NextLoad ==
    \/ \E document \in Documents : DbBase_add_new_xml(document)
    \/ \E dicts \in DictLists : DbBase_add_new_from_dict(dicts)

SpecLoad == InitLoad /\ [][NextLoad]_vars

\* A catalog object holding any catalog, written to its path and read back.
InitStore == \E overlays \in Catalogs({"A", "B"}, MaxSources) : InitDb(overlays)

NextStore ==
    \/ \E order \in Orders(installed_db) : \E tag \in Tags :
       \E ok, opened \in BOOLEAN :
           /\ (ok => opened)
           /\ DbBase_write(order, tag, ok, opened)
    \/ \E opened \in BOOLEAN : \E parse_error \in BrokenDocumentErrors :
           /\ (disk_installed.state = "absent" => opened)
           /\ (disk_installed.state # "truncated" \/ ~opened
                  => parse_error = "ParseError")
           /\ DbBase_init(opened, parse_error)
    \/ \E name \in Ids : DbBase_select(name)

SpecStore == InitStore /\ [][NextStore]_vars

\* self == other and self != other on two catalog objects; outcome is one of
\* the outcomes of __eq__, and __ne__ negates what __eq__ returns.
DbBase_compare(op, other, outcome) ==
    /\ outcome \in DbBase_eq(installed_db, other)
    /\ last' = [op |-> op, other |-> other, raised |-> outcome.raised,
                value |-> IF outcome.raised # NoException THEN FALSE
                          ELSE IF op = "__eq__" THEN outcome.value
                          ELSE ~outcome.value]
    /\ UNCHANGED <<disk_installed, disk_available, installed_db, installed_ids,
                   available_db, available_ids, error_messages, sync_results>>

NextEq ==
    \/ \E other \in Catalogs({"A", "B"}, MaxSources) :
       \E outcome \in DbBase_eq(installed_db, other) :
           DbBase_compare("__eq__", other, outcome)
    \/ \E other \in Catalogs({"A", "B"}, MaxSources) :
       \E outcome \in DbBase_eq(installed_db, other) :
           DbBase_compare("__ne__", other, outcome)

SpecEq == InitStore /\ [][NextEq]_vars

(***************************************************************************)
(* Properties.  They read the record of the latest call: the state before  *)
(* it (pre_db, pre_errors), its inputs (repos, answers) and its outcome.   *)
(***************************************************************************)
IsAdd == last.op = "add_repos" /\ last.raised = NoException
IsDelete == last.op = "delete_repos" /\ last.raised = NoException
IsSync == last.op = "sync" /\ last.argtype \in {"str", "list"}

\* The positions of the batch whose iteration ran, and the errors the call queued.
Processed == 1..Len(last.results)
NewErrors ==
    SubSeq(error_messages, Len(last.pre_errors) + 1, Len(error_messages))
Restrict(db, D) == [n \in D |-> db[n]]
WasInstalled(id) == id \in DOMAIN last.pre_db
Installed(id) == id \in DOMAIN installed_db
Available(id) == id \in DOMAIN available_db

\* C1: add_repos attempts every id of the batch: every id of the list that is
\* available and was not installed, and whose persistence succeeds, is
\* installed when the call returns, whatever happened at the ids before it.
C1_AddAttemptsEveryId ==
    IsAdd =>
        \A i \in DOMAIN last.repos :
            (Available(last.repos[i]) /\ ~WasInstalled(last.repos[i])
                /\ last.answers[i]) => Installed(last.repos[i])

\* C2: delete_repos attempts every id of the batch: every id of the list that
\* was installed and is known to the available catalog, and whose removal
\* succeeds, is gone from the installed catalog when the call returns,
\* whatever happened at the ids before it.
C2_DeleteAttemptsEveryId ==
    IsDelete =>
        \A i \in DOMAIN last.repos :
            (WasInstalled(last.repos[i]) /\ Available(last.repos[i])
                /\ last.answers[i]) => ~Installed(last.repos[i])

\* C3: for an id that is available and not installed, add_repos copies the
\* available definition into the installed catalog: when the persistence
\* succeeds the id is installed afterwards, in memory and in the store, with
\* the available catalog's definition and the outcome True; every outcome is
\* True exactly when the id was installed or was added, and the return value
\* of add_repos is the conjunction of the outcomes.
C3_AddCopiesAvailable ==
    IsAdd =>
        /\ (last.repos # <<>>) => (last.results # <<>>)
        /\ \A i \in Processed :
              LET id == last.repos[i]
                  added_before == \E j \in 1..(i - 1) :
                                      last.repos[j] = id /\ last.results[j]
              IN  /\ (Available(id) /\ ~WasInstalled(id) /\ last.answers[i]) =>
                        /\ Installed(id)
                        /\ installed_db[id] = available_db[id]
                        /\ id \in DOMAIN disk_installed
                        /\ disk_installed[id] = available_db[id]
                        /\ is_installed(installed_ids, id)
                  /\ last.results[i] =
                        (WasInstalled(id) \/ added_before
                            \/ (Available(id) /\ last.answers[i]))
        /\ last.ret = (\A i \in Processed : last.results[i])

\* Witness of C3: a batch of two ids, both available and not installed, where
\* the persistence of the first fails and that of the second succeeds: the
\* second is installed with the available definition and add_repos returns False.
C3_Witness ==
    /\ IsAdd
    /\ Len(last.repos) = 2 /\ Len(last.results) = 2
    /\ last.repos[1] # last.repos[2]
    /\ \A i \in 1..2 : Available(last.repos[i]) /\ ~WasInstalled(last.repos[i])
    /\ last.answers = <<FALSE, TRUE>>
    /\ Installed(last.repos[2])
    /\ installed_db[last.repos[2]] = available_db[last.repos[2]]
    /\ ~last.ret

\* C4: add_repos on ids that are already installed succeeds and changes
\* nothing: it returns True, the installed catalog, its store and the id list
\* are what they were (no entry is duplicated, altered or replaced by the
\* available definition) and no error is queued.  As the state is unchanged,
\* the same holds of every repetition of the call.
C4_AddInstalledIdempotent ==
    (IsAdd /\ last.repos # <<>> /\ \A i \in DOMAIN last.repos :
                                      WasInstalled(last.repos[i])) =>
        /\ last.ret
        /\ installed_db = last.pre_db
        /\ disk_installed = last.pre_db
        /\ installed_ids = sorted(last.pre_db)
        /\ error_messages = last.pre_errors

\* Witness of C4: add_repos(id) returned for an installed id whose available
\* definition differs from the installed one, and the installed one is kept.
C4_Witness ==
    /\ IsAdd /\ Len(last.repos) = 1
    /\ WasInstalled(last.repos[1]) /\ Available(last.repos[1])
    /\ last.pre_db[last.repos[1]] # available_db[last.repos[1]]
    /\ installed_db[last.repos[1]] = last.pre_db[last.repos[1]]
    /\ last.ret

\* C5: add_repos on an id that is neither installed nor available gives a
\* failure outcome for that id: the outcome is False, the unknown-repo error
\* for the id is queued, add_repos returns False, the id is not installed
\* and no exception leaves the call.
C5_AddUnknownFails ==
    (last.op = "add_repos" /\ last.argtype \in {"str", "list"}) =>
        /\ last.raised = NoException
        /\ (last.repos # <<>>) => (last.results # <<>>)
        /\ \A i \in Processed :
              (~WasInstalled(last.repos[i]) /\ ~Available(last.repos[i])) =>
                 /\ ~last.results[i]
                 /\ ErrorEntry(1, "unknown_repo", last.repos[i]) \in Range(NewErrors)
                 /\ ~last.ret
                 /\ ~Installed(last.repos[i])

\* Witness of C5: add_repos(id) returned False for an unknown id and the queue
\* has grown by the unknown-repo error.
C5_Witness ==
    /\ IsAdd /\ Len(last.repos) = 1
    /\ ~WasInstalled(last.repos[1]) /\ ~Available(last.repos[1])
    /\ ~last.ret
    /\ NewErrors = <<ErrorEntry(1, "unknown_repo", last.repos[1])>>

\* C6: a failed add or delete leaves the id's membership in the installed
\* catalog unchanged: an id whose outcomes in add_repos are all failures is
\* not installed afterwards, an id whose outcomes in delete_repos are all
\* failures is still installed afterwards, in memory and in the store, also
\* when DB.add or DB.delete raised.
C6_FailureKeepsMembership ==
    \A i \in Processed :
        LET id == last.repos[i]
            all_failed == \A j \in Processed : last.repos[j] = id => ~last.results[j]
        IN  /\ (IsAdd /\ all_failed) =>
                  (~Installed(id) /\ id \notin DOMAIN disk_installed
                      /\ ~is_installed(installed_ids, id))
            /\ (IsDelete /\ all_failed) =>
                  (Installed(id) /\ id \in DOMAIN disk_installed
                      /\ is_installed(installed_ids, id)
                      /\ installed_db[id] = last.pre_db[id])

\* Witness of C6: DB.delete raised on an installed and available id: the
\* outcome is False, the internal error is queued and the id is still installed.
C6_Witness ==
    /\ IsDelete /\ Len(last.repos) = 1 /\ last.results = <<FALSE>>
    /\ WasInstalled(last.repos[1]) /\ Available(last.repos[1])
    /\ ~last.answers[1]
    /\ NewErrors = <<ErrorEntry(ERROR_INTERNAL_ERROR, "delete_failed", last.repos[1])>>
    /\ Installed(last.repos[1])

\* C7: delete_repos on an id that is not installed is a no-op success: the
\* outcome of the id is True and no error about it is queued, whether or not
\* the id is available; when the id is the first of the batch the call
\* returns True with the installed catalog, its store and the queue unchanged.
C7_DeleteNotInstalledNoOp ==
    IsDelete =>
        /\ (last.repos # <<>>) => (last.results # <<>>)
        /\ \A i \in Processed :
              ~WasInstalled(last.repos[i]) =>
                 /\ last.results[i]
                 /\ \A k \in DOMAIN NewErrors : NewErrors[k].id # last.repos[i]
                 /\ ~Installed(last.repos[i])
        /\ (last.repos # <<>> /\ ~WasInstalled(last.repos[1])) =>
              /\ last.ret
              /\ installed_db = last.pre_db
              /\ disk_installed = last.pre_db
              /\ installed_ids = sorted(last.pre_db)
              /\ error_messages = last.pre_errors

\* Witness of C7: delete_repos(id) returned True for an id that is not
\* installed and not available, while another overlay is installed.
C7_Witness ==
    /\ IsDelete /\ Len(last.repos) = 1
    /\ ~WasInstalled(last.repos[1]) /\ ~Available(last.repos[1])
    /\ last.ret /\ installed_db = last.pre_db /\ installed_db # <<>>
    /\ error_messages = last.pre_errors

\* C8: delete_repos on an id that is installed and available removes exactly
\* that id when the persistence succeeds: the outcome is True, is_installed
\* is False afterwards and every other installed entry is unchanged.  For a
\* batch: the installed catalog after the call is the one before it without
\* the ids whose removal ran and succeeded.
C8_DeleteRemovesExactlyId ==
    IsDelete =>
        LET removed == {last.repos[i] : i \in
                           {j \in Processed : /\ WasInstalled(last.repos[j])
                                              /\ Available(last.repos[j])
                                              /\ last.answers[j]}}
        IN  /\ installed_db = Restrict(last.pre_db, DOMAIN last.pre_db \ removed)
            /\ disk_installed = installed_db
            /\ installed_ids = sorted(installed_db)
            /\ \A id \in removed : ~is_installed(installed_ids, id)
            /\ \A i \in Processed :
                  (WasInstalled(last.repos[i]) /\ Available(last.repos[i])
                      /\ last.answers[i]) => last.results[i]
            /\ (Len(last.repos) = 1 /\ removed # {}) => last.ret

\* Witness of C8: delete_repos(id) removed an installed and available id and
\* left the other installed overlay in place.
C8_Witness ==
    /\ IsDelete /\ Len(last.repos) = 1
    /\ WasInstalled(last.repos[1]) /\ Available(last.repos[1])
    /\ last.answers[1] /\ last.ret
    /\ ~Installed(last.repos[1])
    /\ \E n \in Ids : n # last.repos[1] /\ Installed(n)
                        /\ installed_db[n] = last.pre_db[n]

\* C9: in sync, an id that is not installed is recorded as a fatal entry for
\* that id and the batch continues with the next id: sync returns, every id of
\* the batch that is not installed is in the fatal list, every installed id
\* of the batch is handed to the adapter, and the overall result is False.
C9_SyncNotInstalledIsFatal ==
    (IsSync /\ \E i \in DOMAIN last.repos : ~Installed(last.repos[i])) =>
        /\ last.raised = NoException
        /\ \A i \in DOMAIN last.repos :
              IF Installed(last.repos[i])
              THEN last.repos[i] \in Range(last.success) \cup Range(last.fatals)
              ELSE last.repos[i] \in Range(last.fatals)
        /\ ~last.ret

\* C10: the overall result of sync is True if and only if the fatal list of
\* the batch is empty, for every batch and either value of output_results;
\* warnings do not change the result.  Stated for the batches of ids that are
\* installed and available: sync returns, and returns whether fatals is empty.
C10_SyncResultIffNoFatals ==
    (IsSync /\ \A i \in DOMAIN last.repos :
                  Installed(last.repos[i]) /\ Available(last.repos[i])) =>
        /\ last.raised = NoException
        /\ last.ret = (last.fatals = <<>>)

\* C11: after every sync call that returns, with True or with False,
\* sync_results is the triple (success, warnings, fatals) of that call's
\* batch, not that of an earlier call and not the initial empty value.
C11_SyncResultsOfThisCall ==
    (IsSync /\ last.raised = NoException) =>
        sync_results = <<last.success, last.warnings, last.fatals>>

\* C12: in sync([id1, id2]) with both ids installed, when the adapter sync of
\* id1 fails: id1 is in the fatal list, no exception leaves the call, the
\* adapter is invoked for id2, and id2 is a success or a fatal entry as the
\* adapter answers for id2, which is its classification in sync([id2]).
C12_SyncFailureIsolated ==
    (IsSync /\ Len(last.repos) = 2
        /\ Installed(last.repos[1]) /\ Installed(last.repos[2])
        /\ ~last.answers[1]) =>
        /\ last.raised = NoException
        /\ last.repos[1] \in Range(last.fatals)
        /\ last.repos[2] \in Range(last.success) \cup Range(last.fatals)
        /\ last.answers[2] => last.repos[2] \in Range(last.success)
        /\ ~last.answers[2] => last.repos[2] \in Range(last.fatals)

\* C13: in sync of an installed id that is absent from the available catalog,
\* exactly one warning is recorded for the id, the absence adds nothing to the
\* fatal list (the id is a fatal entry only when the adapter fails), and the
\* adapter sync is invoked: the id is a success or a fatal entry.
C13_SyncUnavailableWarnsOnce ==
    (IsSync /\ Len(last.repos) = 1
        /\ Installed(last.repos[1]) /\ ~Available(last.repos[1])) =>
        /\ last.raised = NoException
        /\ Len(last.warnings) = 1 /\ last.warnings[1].id = last.repos[1]
        /\ last.answers[1] => last.fatals = <<>>
        /\ last.repos[1] \in Range(last.success) \cup Range(last.fatals)

\* The installed primary source of id and the uris of the available sources.
PrimarySource(id) == installed_db[id].sources[1]
CandidateUris(id) == {available_db[id].sources[k] :
                          k \in DOMAIN available_db[id].sources}
Drifted(id) == PrimarySource(id) \notin CandidateUris(id)

\* C14: sync of ids that are installed and available, with the adapter
\* succeeding for each, returns, and the warnings it has recorded (the second
\* list of sync_results) are, in the order of the batch, one source-changed
\* entry for every id whose installed primary (first) source is not among the
\* uris of the sources of the available definition, and none for the other
\* ids; the entry names the installed primary source and the candidate uris,
\* in the singular form when there is exactly one distinct candidate and in
\* the plural form otherwise; with or without a warning every id was handed
\* to the adapter and is in the success list.
C14_SourceDriftWarning ==
    (IsSync /\ \A i \in DOMAIN last.repos :
                  /\ Installed(last.repos[i]) /\ Available(last.repos[i])
                  /\ last.answers[i]) =>
        /\ last.raised = NoException
        /\ sync_results[1] = last.repos
        /\ LET drifted == SelectSeq(last.repos, Drifted)
               recorded == sync_results[2]
           IN  /\ Len(recorded) = Len(drifted)
               /\ \A k \in DOMAIN recorded :
                     /\ recorded[k].id = drifted[k]
                     /\ recorded[k].kind = "source_changed"
                     /\ recorded[k].current_src = PrimarySource(drifted[k])
                     /\ recorded[k].candidates = CandidateUris(drifted[k])
                     /\ recorded[k].plural =
                           IF Cardinality(CandidateUris(drifted[k])) = 1
                           THEN "" ELSE "s"

BatchOps == {"add_repos", "delete_repos", "sync", "get_all_info", "get_info_str"}

\* C15: a batch operation given an argument that is neither a string nor a
\* list returns without raising, has queued exactly one error, the
\* unsupported-input error numbered 2, and has left the installed and the
\* available catalogs and their stores unchanged.
C15_UnsupportedInputRecorded ==
    (last.op \in BatchOps /\ last.argtype \notin {"str", "list"}) =>
        /\ last.raised = NoException
        /\ Len(NewErrors) = 1 /\ NewErrors[1].num = 2
        /\ installed_db = last.pre_db /\ disk_installed = last.pre_db

\* C16: get_errors is a read-once drain of the error queue.  Every call other
\* than get_errors only appends to the queue; get_errors on a non-empty queue
\* returns the whole queue as it was, in order, and leaves it empty;
\* get_errors on an empty queue, as is every get_errors that directly follows
\* another, returns None.  So every error is returned by exactly one call.
C16_GetErrorsDrains ==
    IF last.op = "get_errors"
    THEN /\ error_messages = <<>>
         /\ IF last.pre_errors = <<>>
            THEN last.returned = "None" /\ last.messages = <<>>
            ELSE last.returned = "list" /\ last.messages = last.pre_errors
    ELSE /\ Len(last.pre_errors) <= Len(error_messages)
         /\ SubSeq(error_messages, 1, Len(last.pre_errors)) = last.pre_errors

\* Witness of C16: get_errors returned two different errors, in the order in
\* which they were queued, and the queue is empty.
C16_Witness ==
    /\ last.op = "get_errors" /\ last.returned = "list"
    /\ Len(last.messages) = 2 /\ last.messages[1] # last.messages[2]
    /\ last.messages = last.pre_errors
    /\ error_messages = <<>>

IsInfo == last.op \in {"get_all_info", "get_info_str"}
                /\ last.argtype \in {"str", "list"}

\* C17: get_all_info and get_info_str return for every batch: every id of the
\* batch is a key of the returned map, an id of the available catalog maps to
\* the record built from its available definition, and an id unknown to the
\* available catalog maps to the placeholder and has an error in the queue.
C17_InfoUnknownIdPlaceholder ==
    IsInfo =>
        /\ last.raised = NoException
        /\ \A i \in DOMAIN last.repos :
              LET id == last.repos[i]
              IN  /\ id \in DOMAIN last.info
                  /\ IF Available(id)
                     THEN last.info[id] =
                             IF last.op = "get_all_info"
                             THEN all_info(available_db[id])
                             ELSE info_str(available_db[id])
                     ELSE /\ last.info[id] = Placeholder
                          /\ \E k \in DOMAIN NewErrors : NewErrors[k].id = id

\* C18: select(name) on a catalog raises UnknownOverlayException, and no other
\* exception, for every name that is not a key of the catalog, and returns
\* the stored overlay for every name that is a key.
C18_SelectUnknownOverlay ==
    last.op = "select" =>
        IF last.name \in DOMAIN installed_db
        THEN last.raised = NoException /\ last.value = installed_db[last.name]
        ELSE last.raised = UnknownOverlayException

\* The names a document declares, and the overlays it declares for a name.
DeclaredNames(d) == {d[k].name : k \in DOMAIN d}
DeclaredOverlays(d, n) ==
    {Overlay(n, d[k].sources) : k \in {i \in DOMAIN d : d[i].name = n}}

\* C19: after the documents d1..dn have been added to a new catalog, as xml
\* or as dictionaries, the keys of the catalog are the names declared by any
\* of the documents, and each name has an overlay that the last document
\* declaring the name declares for it, whole: the name and the sources of
\* that declaration and nothing of an earlier document.  The overlays of the
\* names the latest document does not declare are as they were before it was
\* added.
C19_LastWriterWins ==
    last.op \in {"add_new_xml", "add_new_from_dict"} =>
        /\ DOMAIN installed_db = UNION {DeclaredNames(last.docs[j]) :
                                           j \in DOMAIN last.docs}
        /\ \A n \in DOMAIN installed_db :
              \E j \in DOMAIN last.docs :
                  /\ n \in DeclaredNames(last.docs[j])
                  /\ \A m \in DOMAIN last.docs :
                        m > j => n \notin DeclaredNames(last.docs[m])
                  /\ installed_db[n] \in DeclaredOverlays(last.docs[j], n)
        /\ \A n \in DOMAIN last.pre_db :
              n \notin DeclaredNames(last.docs[Len(last.docs)]) =>
                  installed_db[n] = last.pre_db[n]

\* Witness of C19: two documents were added; both declare one name, with
\* different sources, and only the first declares the other name: the catalog
\* has the first name from the second document and the other from the first.
C19_Witness ==
    /\ last.op \in {"add_new_xml", "add_new_from_dict"}
    /\ Len(last.docs) = 2
    /\ \E n, o \in Ids :
          /\ n # o
          /\ n \in DeclaredNames(last.docs[1]) /\ n \in DeclaredNames(last.docs[2])
          /\ DeclaredOverlays(last.docs[1], n)
                \cap DeclaredOverlays(last.docs[2], n) = {}
          /\ o \in DeclaredNames(last.docs[1]) /\ o \notin DeclaredNames(last.docs[2])
          /\ installed_db[n] \in DeclaredOverlays(last.docs[2], n)
          /\ installed_db[o] \in DeclaredOverlays(last.docs[1], o)

\* C20: round trip.  When a catalog has been written to its path, the catalog
\* read from the file is the written one; a new catalog object constructed
\* from the path directly after the write, the file being readable, has the
\* names of the written catalog and, for each name, its overlay with the same
\* sources in the same order, and compares equal to it.
C20_WriteLoadRoundTrip ==
    /\ (last.op = "write" /\ last.raised = NoException) =>
          /\ disk_installed.state = "written"
          /\ read(<<>>, disk_installed.document) = installed_db
    /\ (last.op = "DbBase" /\ last.after_write /\ last.opened) =>
          /\ last.raised = NoException
          /\ DOMAIN installed_db = DOMAIN last.pre_db
          /\ \A n \in DOMAIN installed_db :
                /\ installed_db[n].name = n
                /\ installed_db[n].sources = last.pre_db[n].sources
          /\ DbBase_eq(installed_db, last.pre_db) =
                {[raised |-> NoException, value |-> TRUE]}

\* Witness of C20: a catalog of two overlays, one of them with two different
\* sources, was written as `repo` elements and a new object was constructed
\* from the file.
C20_Witness ==
    /\ last.op = "DbBase" /\ last.after_write /\ last.raised = NoException
    /\ DOMAIN last.pre_db = Ids
    /\ \E n \in Ids : /\ Len(last.pre_db[n].sources) = 2
                      /\ last.pre_db[n].sources[1] # last.pre_db[n].sources[2]
    /\ \A k \in DOMAIN disk_installed.document :
          disk_installed.document[k].tag = "repo"
    /\ installed_db = last.pre_db

\* A list of ids in strictly ascending order.
Ascending(ids) == \A i, j \in DOMAIN ids : i < j => IdRank[ids[i]] < IdRank[ids[j]]

\* C21: after any sequence of add_repos, delete_repos and reload calls (and
\* get_errors), is_installed(id) is true exactly for the keys of the installed
\* catalog and get_installed() returns exactly those keys in ascending order;
\* is_repo(id) is true exactly for the keys of the available catalog and
\* get_available() returns exactly those keys in ascending order.
C21_IdListsMatchCatalogs ==
    /\ \A id \in Ids : is_installed(installed_ids, id) <=> id \in DOMAIN installed_db
    /\ Range(installed_ids) = DOMAIN installed_db /\ Ascending(installed_ids)
    /\ \A id \in Ids : is_repo(available_ids, id) <=> id \in DOMAIN available_db
    /\ Range(available_ids) = DOMAIN available_db /\ Ascending(available_ids)

\* Witness of C21: add_repos installed the id "a" next to the installed "b",
\* and get_installed() is the list of "a" then "b".
C21_Witness ==
    /\ IsAdd /\ DOMAIN last.pre_db = {"b"}
    /\ DOMAIN installed_db = {"a", "b"}
    /\ installed_ids = <<"a", "b">>
    /\ is_installed(installed_ids, "a")

\* C24: delete_repos on an id that is installed and absent from the available
\* catalog does not remove it: the outcome of the id is False, the
\* unknown-repo error for the id is queued, the id is still installed with
\* its definition, in memory and in the store, and the call returns False.
C24_DeleteUnavailableFails ==
    IsDelete =>
        /\ (last.repos # <<>>) => (last.results # <<>>)
        /\ \A i \in Processed :
              (WasInstalled(last.repos[i]) /\ ~Available(last.repos[i])) =>
                 /\ ~last.results[i]
                 /\ ErrorEntry(1, "unknown_repo", last.repos[i]) \in Range(NewErrors)
                 /\ Installed(last.repos[i])
                 /\ installed_db[last.repos[i]] = last.pre_db[last.repos[i]]
                 /\ last.repos[i] \in DOMAIN disk_installed
                 /\ is_installed(installed_ids, last.repos[i])
                 /\ ~last.ret

\* Witness of C24: delete_repos(id) returned False for an installed id that
\* the available catalog does not have; the id is installed as before.
C24_Witness ==
    /\ IsDelete /\ Len(last.repos) = 1
    /\ WasInstalled(last.repos[1]) /\ ~Available(last.repos[1])
    /\ last.results = <<FALSE>> /\ ~last.ret
    /\ NewErrors = <<ErrorEntry(1, "unknown_repo", last.repos[1])>>
    /\ installed_db = last.pre_db

\* C22: catalog equality is equality of the name-to-overlay mappings: for any
\* two catalogs == returns, and returns True exactly when they have the same
\* keys and equal overlays under every key (so False, not a failure, when one
\* has a name the other lacks), and != returns the negation.
C22_CatalogEquality ==
    last.op \in {"__eq__", "__ne__"} =>
        /\ last.raised = NoException
        /\ last.value = IF last.op = "__eq__"
                        THEN installed_db = last.other
                        ELSE installed_db # last.other

\* C23: in every sync batch without repeated ids, each installed id of the
\* batch is exactly once in the success and fatal lists taken together (so
\* never in both), the ids of each of the success, warnings and fatals lists
\* are in the order of the batch, and an id is in the success list only if
\* the adapter sync for it returned without failure.
C23_SyncListsPartitionBatch ==
    (IsSync /\ \A i, j \in DOMAIN last.repos :
                  i # j => last.repos[i] # last.repos[j]) =>
        LET classified == last.success \o last.fatals
            Position(id) == CHOOSE i \in DOMAIN last.repos : last.repos[i] = id
            InBatchOrder(ids) ==
                \A k, l \in DOMAIN ids :
                    k < l => Position(ids[k]) < Position(ids[l])
        IN  /\ \A i \in DOMAIN last.repos :
                  Installed(last.repos[i]) =>
                      Cardinality({k \in DOMAIN classified :
                                      classified[k] = last.repos[i]}) = 1
            /\ Range(classified) \subseteq Range(last.repos)
            /\ InBatchOrder(last.success) /\ InBatchOrder(last.fatals)
            /\ InBatchOrder([k \in DOMAIN last.warnings |-> last.warnings[k].id])
            /\ \A i \in DOMAIN last.repos :
                  last.repos[i] \in Range(last.success) => last.answers[i]

====
